---- MODULE Spec2Model ----
(***************************************************************************)
(* LinguistAI: the navigation shell (App), the live session controller     *)
(* (LiveConversation), the video panel (VeoAnimator), the image panel      *)
(* (ImageEditor) and the search panel (SearchQuery) as state machines.     *)
(* Every handler of the components is one action; an await in a handler    *)
(* splits it into the steps before and after the await.                    *)
(***************************************************************************)
EXTENDS Integers, Sequences, FiniteSets, TLC

\* ------------------------------------------------------------------ bounds
MaxSessions == 2      \* startSession calls followed in one run
MicSessions == 1      \* ... in the capture specification
MaxAudio == 2         \* inbound audio payloads followed in one run
MaxDur == 2           \* longest decoded buffer, in playback-clock ticks
MaxClock == 3         \* playback-clock ticks followed per context
MaxText == 1          \* transcript fragments kept per transcript string
MaxTimers == 2        \* pending turn-complete timers
MaxChunks == 2        \* microphone chunks followed in one run
TicksPerDelay == 2    \* clock steps that make up the turn-complete delay
MaxPolls == 3         \* status fetches followed per video job
MaxParts == 2         \* parts per image response
MaxAlerts == 2        \* alert dialogs counted
MaxQuery == 2         \* characters of the search query
MaxRequests == 2      \* search requests followed in one run
MaxCites == 1         \* citations per search result

\* ------------------------------------------------------- program constants
TURN_CLEAR_DELAY_MS == 3000

NULL == "null"
Sessions == 1..MaxSessions
TickMs == TURN_CLEAR_DELAY_MS \div TicksPerDelay

VARIABLES
  \* App: React state
  mode,
  \* LiveConversation: React state
  isConnected, error, transcription,
  \* LiveConversation: refs (0 is null, s > 0 the object made by the s-th start)
  inputAudioContextRef, outputAudioContextRef,
  inputAnalyserRef, outputAnalyserRef,
  mediaStreamRef, sessionRef, sourcesRef, nextStartTimeRef,
  \* the objects the refs and closures point to
  inCtxState, outCtxState, outClock, streamState,
  pc, promise, outNodeCtx, procCtx,
  sources, pendingDecodes, timers, chunks,
  nextSess, audioSeq, mounted, lastOp, flushed, flushSeq,
  \* VeoAnimator: React state, then the position and locals of handleGenerate
  file, videoUrl, isLoading, status, vError,
  vpc, operation, fetches, notDone, submitDone, threw,
  \* ImageEditor: React state, then the position and locals of handleEdit
  iFile, iPrompt, resultImage, loading, alerts, ipc, lastParts,
  \* SearchQuery: React state, then the position of handleSearch
  query, response, groundingChunks, sLoading, spc, requests, sLast

liveVars == << isConnected, error, transcription,
               inputAudioContextRef, outputAudioContextRef,
               inputAnalyserRef, outputAnalyserRef,
               mediaStreamRef, sessionRef, sourcesRef, nextStartTimeRef,
               inCtxState, outCtxState, outClock, streamState,
               pc, promise, outNodeCtx, procCtx,
               sources, pendingDecodes, timers, chunks,
               nextSess, audioSeq, mounted, lastOp, flushed, flushSeq >>

videoVars == << file, videoUrl, isLoading, status, vError,
                vpc, operation, fetches, notDone, submitDone, threw >>

imageVars == << iFile, iPrompt, resultImage, loading, alerts, ipc, lastParts >>

searchVars == << query, response, groundingChunks, sLoading, spc, requests,
                 sLast >>

vars == << mode, liveVars, videoVars, imageVars, searchVars >>

Max(a, b) == IF a >= b THEN a ELSE b

\* -------------------------------------------------------------------- App
AppMode == {"conversation", "animator", "scenario", "search"}

\* The component that renderContent returns for mode m.
renderContent(m) ==
  CASE m = "conversation" -> "LiveConversation"
    [] m = "animator" -> "VeoAnimator"
    [] m = "scenario" -> "ImageEditor"
    [] m = "search" -> "SearchQuery"
    [] OTHER -> "LiveConversation"

\* The panel inside <main>.
Shown == renderContent(mode)

\* The handlers that run cleanup() or the interruption flush.
FlushOps == {"cleanup", "cleanup2", "unmount", "startFailed", "micFailed",
             "micDenied", "interrupted"}

\* A step of the live session: op names the handler that ran, flushSeq the
\* last payload received before the latest flush; the shell and the other
\* panels are separate components and keep their state.
Did(op) ==
  /\ lastOp' = op
  /\ flushed' = (flushed \/ op \in FlushOps)
  /\ flushSeq' = IF op \in FlushOps THEN audioSeq ELSE flushSeq
  /\ UNCHANGED << mode, videoVars, imageVars, searchVars >>

\* Messages an exception thrown inside startSession can carry ("" is falsy).
ThrownMessages == {"", "NotAllowedError"}

InitLive ==
  /\ isConnected = FALSE
  /\ error = NULL
  /\ transcription = [user |-> <<>>, model |-> <<>>]
  /\ inputAudioContextRef = 0
  /\ outputAudioContextRef = 0
  /\ inputAnalyserRef = 0
  /\ outputAnalyserRef = 0
  /\ mediaStreamRef = 0
  /\ sessionRef = 0
  /\ sourcesRef = {}
  /\ nextStartTimeRef = 0
  /\ inCtxState = [s \in Sessions |-> "none"]
  /\ outCtxState = [s \in Sessions |-> "none"]
  /\ outClock = [s \in Sessions |-> 0]
  /\ streamState = [s \in Sessions |-> "none"]
  /\ pc = [s \in Sessions |-> "idle"]
  /\ promise = [s \in Sessions |-> "none"]
  /\ outNodeCtx = [s \in Sessions |-> 0]
  /\ procCtx = [s \in Sessions |-> 0]
  /\ sources = <<>>
  /\ pendingDecodes = <<>>
  /\ timers = <<>>
  /\ chunks = <<>>
  /\ nextSess = 1
  /\ audioSeq = 0
  /\ mounted = TRUE
  /\ lastOp = "init"
  /\ flushed = FALSE
  /\ flushSeq = 0

\* ----------------------------------------------------------------- cleanup
\* s.stop() on every source of the playback set (cleanup and interruption).
StopAll(srcs, set) ==
  [i \in DOMAIN srcs |->
     IF i \in set /\ srcs[i].st = "scheduled"
       THEN [srcs[i] EXCEPT !.st = "stopped"]
       ELSE srcs[i]]

\* cleanup(), run on the ref values ms, ic, oc and the object states strm,
\* ics, ocs that the calling handler has produced so far.
Cleanup(ms, strm, ic, ics, oc, ocs) ==
  /\ mediaStreamRef' = 0
  /\ streamState' = IF ms # 0 THEN [strm EXCEPT ![ms] = "stopped"] ELSE strm
  /\ inputAudioContextRef' = 0
  /\ inCtxState' = IF ic # 0 THEN [ics EXCEPT ![ic] = "closed"] ELSE ics
  /\ outputAudioContextRef' = 0
  /\ outCtxState' = IF oc # 0 THEN [ocs EXCEPT ![oc] = "closed"] ELSE ocs
  /\ sources' = IF oc # 0 THEN StopAll(sources, sourcesRef) ELSE sources
  /\ sourcesRef' = IF oc # 0 THEN {} ELSE sourcesRef
  /\ sessionRef' = 0
  /\ isConnected' = FALSE
  /\ nextStartTimeRef' = 0

CleanupNow ==
  Cleanup(mediaStreamRef, streamState, inputAudioContextRef, inCtxState,
          outputAudioContextRef, outCtxState)

\* What cleanup() never touches.
CleanupFrame ==
  UNCHANGED << transcription, inputAnalyserRef, outputAnalyserRef, outClock,
               pc, promise, outNodeCtx, procCtx, pendingDecodes, timers,
               chunks, nextSess, audioSeq >>

\* The End Session button, shown while isConnected.
StopClick ==
  /\ mounted /\ isConnected
  /\ CleanupNow
  /\ Did("cleanup")
  /\ UNCHANGED << error, mounted >>
  /\ CleanupFrame

\* A second click on End Session before the button is re-rendered.
StopClickAgain ==
  /\ mounted /\ lastOp = "cleanup"
  /\ CleanupNow
  /\ Did("cleanup2")
  /\ UNCHANGED << error, mounted >>
  /\ CleanupFrame

\* The effect's destructor, run when React unmounts the component.
Unmount ==
  /\ mounted
  /\ CleanupNow
  /\ mounted' = FALSE
  /\ lastOp' = "unmount"
  /\ flushed' = TRUE
  /\ flushSeq' = audioSeq
  /\ UNCHANGED error
  /\ CleanupFrame

\* ------------------------------------------------------------ startSession
\* catch (e): setError(e.message || "Failed to start session")
CaughtText(msg) == IF msg # "" THEN msg ELSE "Failed to start session"

\* Start Session click, up to the await of getUserMedia.  fail says which
\* constructor throws: "early" (GoogleGenAI or the capture context),
\* "outCtx" (the playback context), or "none".
StartClick(fail, msg) ==
  /\ mounted /\ ~isConnected
  /\ nextSess <= MaxSessions
  /\ LET s == nextSess IN
     /\ nextSess' = s + 1
     /\ Did(IF fail = "none" THEN "start" ELSE "startFailed")
     /\ CASE fail = "early" ->
               /\ error' = CaughtText(msg)
               /\ CleanupNow
               /\ pc' = [pc EXCEPT ![s] = "failed"]
               /\ UNCHANGED << inputAnalyserRef, outputAnalyserRef, outClock >>
          [] fail = "outCtx" ->
               /\ error' = CaughtText(msg)
               /\ Cleanup(mediaStreamRef, streamState,
                          s, [inCtxState EXCEPT ![s] = "running"],
                          outputAudioContextRef, outCtxState)
               /\ pc' = [pc EXCEPT ![s] = "failed"]
               /\ UNCHANGED << inputAnalyserRef, outputAnalyserRef, outClock >>
          [] OTHER ->
               /\ error' = NULL
               /\ inputAudioContextRef' = s
               /\ outputAudioContextRef' = s
               /\ inCtxState' = [inCtxState EXCEPT ![s] = "running"]
               /\ outCtxState' = [outCtxState EXCEPT ![s] = "running"]
               /\ outClock' = [outClock EXCEPT ![s] = 0]
               /\ inputAnalyserRef' = s
               /\ outputAnalyserRef' = s
               /\ pc' = [pc EXCEPT ![s] = "mic"]
               /\ UNCHANGED << mediaStreamRef, streamState, sources, sourcesRef,
                               sessionRef, isConnected, nextStartTimeRef >>
  /\ UNCHANGED << transcription, promise, outNodeCtx, procCtx, pendingDecodes,
                  timers, chunks, audioSeq, mounted >>

\* getUserMedia resolves; the rest of the try block runs.  connectThrows:
\* ai.live.connect throws synchronously.
MicGranted(s, connectThrows, msg) ==
  /\ pc[s] = "mic"
  /\ Did(IF outputAudioContextRef = 0 \/ connectThrows
            THEN "micFailed" ELSE "micGranted")
  /\ LET strm == [streamState EXCEPT ![s] = "live"] IN
     IF outputAudioContextRef = 0 \/ connectThrows
       THEN \* createGain on a null ref (TypeError), or connect throws
            /\ error' = IF outputAudioContextRef = 0
                          THEN "TypeError" ELSE CaughtText(msg)
            /\ Cleanup(s, strm, inputAudioContextRef, inCtxState,
                       outputAudioContextRef, outCtxState)
            /\ pc' = [pc EXCEPT ![s] = "failed"]
            /\ outNodeCtx' = IF outputAudioContextRef = 0 THEN outNodeCtx
                             ELSE [outNodeCtx EXCEPT ![s] = outputAudioContextRef]
            /\ UNCHANGED promise
       ELSE /\ mediaStreamRef' = s
            /\ streamState' = strm
            /\ outNodeCtx' = [outNodeCtx EXCEPT ![s] = outputAudioContextRef]
            /\ promise' = [promise EXCEPT ![s] = "pending"]
            /\ sessionRef' = s
            /\ pc' = [pc EXCEPT ![s] = "connecting"]
            /\ UNCHANGED << error, inputAudioContextRef, inCtxState,
                            outputAudioContextRef, outCtxState, sources,
                            sourcesRef, isConnected, nextStartTimeRef >>
  /\ UNCHANGED << transcription, inputAnalyserRef, outputAnalyserRef, outClock,
                  procCtx, pendingDecodes, timers, chunks, nextSess, audioSeq,
                  mounted >>

\* getUserMedia rejects (permission denied, no device).
MicDenied(s, msg) ==
  /\ pc[s] = "mic"
  /\ Did("micDenied")
  /\ error' = CaughtText(msg)
  /\ CleanupNow
  /\ pc' = [pc EXCEPT ![s] = "failed"]
  /\ UNCHANGED << transcription, inputAnalyserRef, outputAnalyserRef, outClock,
                  promise, outNodeCtx, procCtx, pendingDecodes, timers, chunks,
                  nextSess, audioSeq, mounted >>

\* ------------------------------------------------------- session callbacks
\* onopen
Opened(s) ==
  /\ pc[s] = "connecting"
  /\ Did("onopen")
  /\ isConnected' = TRUE
  /\ pc' = [pc EXCEPT ![s] = "open"]
  \* createMediaStreamSource on a null ref throws inside the callback
  /\ procCtx' = IF inputAudioContextRef = 0 THEN procCtx
                ELSE [procCtx EXCEPT ![s] = inputAudioContextRef]
  /\ UNCHANGED << error, transcription, inputAudioContextRef,
                  outputAudioContextRef, inputAnalyserRef, outputAnalyserRef,
                  mediaStreamRef, sessionRef, sourcesRef, nextStartTimeRef,
                  inCtxState, outCtxState, outClock, streamState, promise,
                  outNodeCtx, sources, pendingDecodes, timers, chunks,
                  nextSess, audioSeq, mounted >>

\* onclose
OnClose ==
  /\ isConnected' = FALSE
  /\ UNCHANGED error

\* Mutant of OnError: the message is set, the flag is left alone.
OnErrorKeepsFlag ==
  /\ error' = "Connection error occurred."
  /\ UNCHANGED isConnected

\* onerror
OnError ==
  /\ error' = "Connection error occurred."
  /\ isConnected' = FALSE

CallbackFrame ==
  UNCHANGED << transcription, inputAudioContextRef, outputAudioContextRef,
               inputAnalyserRef, outputAnalyserRef, mediaStreamRef, sessionRef,
               sourcesRef, nextStartTimeRef, inCtxState, outCtxState, outClock,
               streamState, outNodeCtx, procCtx, sources, pendingDecodes,
               timers, nextSess, audioSeq, mounted >>

\* The connection attempt fails: the promise of ai.live.connect, which
\* startSession does not await, rejects and onerror is called.
ConnectFailed(s) ==
  /\ pc[s] = "connecting"
  /\ Did("connectFailed")
  /\ OnError
  /\ pc' = [pc EXCEPT ![s] = "failed"]
  /\ promise' = [promise EXCEPT ![s] = "rejected"]
  /\ UNCHANGED chunks
  /\ CallbackFrame

RemoteClosed(s) ==
  /\ pc[s] \in {"open", "errored"}
  /\ Did("onclose")
  /\ OnClose
  /\ pc' = [pc EXCEPT ![s] = "closed"]
  /\ UNCHANGED << promise, chunks >>
  /\ CallbackFrame

RemoteError(s) ==
  /\ pc[s] = "open"
  /\ Did("onerror")
  /\ OnError
  /\ pc' = [pc EXCEPT ![s] = "errored"]
  /\ UNCHANGED << promise, chunks >>
  /\ CallbackFrame

\* ------------------------------------------------------------- onmessage
Messages ==
  [outT : BOOLEAN, inT : BOOLEAN, turnComplete : BOOLEAN,
   audio : BOOLEAN, interrupted : BOOLEAN]

\* setTranscription(prev => prev.x + text), for both directions
Transcribed(tr, m) ==
  [user  |-> IF m.inT THEN Append(tr.user, "t") ELSE tr.user,
   model |-> IF m.outT THEN Append(tr.model, "t") ELSE tr.model]

\* Mutant of Interrupted: the set is cleared without stopping its sources.
InterruptedNoStop(srcs, set, tr) ==
  /\ sources' = srcs
  /\ sourcesRef' = {}
  /\ nextStartTimeRef' = 0
  /\ transcription' = [tr EXCEPT !.model = <<>>]

\* Mutant of Interrupted: both transcript strings are dropped.
InterruptedClearsAll(srcs, set, tr) ==
  /\ sources' = StopAll(srcs, set)
  /\ sourcesRef' = {}
  /\ nextStartTimeRef' = 0
  /\ transcription' = [user |-> <<>>, model |-> <<>>]

\* if (interrupted): stop every tracked source, clear the set, reset the
\* cursor, drop the model transcript.  srcs, set, tr: the values the handler
\* has produced so far.
Interrupted(srcs, set, tr) ==
  /\ sources' = StopAll(srcs, set)
  /\ sourcesRef' = {}
  /\ nextStartTimeRef' = 0
  /\ transcription' = [tr EXCEPT !.model = <<>>]

\* onmessage up to the await of decodeAudioData (or to its end, when the
\* message has no audio to decode).
Message(s, m) ==
  /\ pc[s] = "open"
  /\ m.inT => Len(transcription.user) < MaxText
  /\ m.outT => Len(transcription.model) < MaxText
  /\ m.turnComplete => Len(timers) < MaxTimers
  /\ m.audio => audioSeq < MaxAudio
  /\ m.outT \/ m.inT \/ m.turnComplete \/ m.audio \/ m.interrupted
  /\ LET tr == Transcribed(transcription, m) IN
     /\ timers' = IF m.turnComplete
                    THEN Append(timers, TURN_CLEAR_DELAY_MS) ELSE timers
     /\ IF m.audio /\ outputAudioContextRef # 0
          THEN /\ Did("message")
               /\ nextStartTimeRef' =
                    Max(nextStartTimeRef, outClock[outputAudioContextRef])
               /\ audioSeq' = audioSeq + 1
               /\ pendingDecodes' = Append(pendingDecodes,
                    [sess |-> s, ctx |-> outputAudioContextRef,
                     seq |-> audioSeq + 1, interrupted |-> m.interrupted])
               /\ transcription' = tr
               /\ UNCHANGED << sources, sourcesRef >>
          ELSE /\ UNCHANGED << audioSeq, pendingDecodes >>
               /\ IF m.interrupted
                    THEN /\ Did("interrupted")
                         /\ Interrupted(sources, sourcesRef, tr)
                    ELSE /\ Did("message")
                         /\ transcription' = tr
                         /\ UNCHANGED << sources, sourcesRef, nextStartTimeRef >>
  /\ UNCHANGED << isConnected, error, inputAudioContextRef,
                  outputAudioContextRef, inputAnalyserRef, outputAnalyserRef,
                  mediaStreamRef, sessionRef, inCtxState, outCtxState, outClock,
                  streamState, pc, promise, outNodeCtx, procCtx, chunks,
                  nextSess, mounted >>

\* The buffer source made from a decoded payload p of duration dur, started
\* at the cursor `when` while the context's clock reads `now`.
NewSource(p, when, dur, now) ==
  [seq |-> p.seq, ctx |-> p.ctx, when |-> when, dur |-> dur, at |-> now,
   st |-> "scheduled"]

\* The cursor after a source of duration dur was started.
Advance(cursor, dur) == cursor + dur

\* Mutant of DecodeDone: a failed decode resets the cursor.
DecodeDoneFailureResets(dur) ==
  /\ pendingDecodes # <<>>
  /\ LET p == Head(pendingDecodes)
         ok == dur > 0 /\ outNodeCtx[p.sess] = p.ctx
         i == Len(sources) + 1
         srcs == IF ok
                   THEN Append(sources,
                          NewSource(p, nextStartTimeRef, dur, outClock[p.ctx]))
                   ELSE sources
         set == IF ok THEN sourcesRef \cup {i} ELSE sourcesRef
         cur == IF ok THEN Advance(nextStartTimeRef, dur) ELSE 0
     IN
     /\ pendingDecodes' = Tail(pendingDecodes)
     /\ IF p.interrupted
          THEN /\ Did("interrupted")
               /\ Interrupted(srcs, set, transcription)
          ELSE /\ Did(IF ok THEN "scheduled" ELSE "decodeFailed")
               /\ sources' = srcs
               /\ sourcesRef' = set
               /\ nextStartTimeRef' = cur
               /\ UNCHANGED transcription
  /\ UNCHANGED << isConnected, error, inputAudioContextRef,
                  outputAudioContextRef, inputAnalyserRef, outputAnalyserRef,
                  mediaStreamRef, sessionRef, inCtxState, outCtxState, outClock,
                  streamState, pc, promise, outNodeCtx, procCtx, timers, chunks,
                  nextSess, audioSeq, mounted >>

\* decodeAudioData settles and onmessage resumes: dur > 0 is the decoded
\* duration, dur = 0 a decode that throws.  source.connect(outputNode)
\* throws when the node belongs to another context.
DecodeDone(dur) ==
  /\ pendingDecodes # <<>>
  /\ LET p == Head(pendingDecodes)
         ok == dur > 0 /\ outNodeCtx[p.sess] = p.ctx
         i == Len(sources) + 1
         srcs == IF ok
                   THEN Append(sources,
                          NewSource(p, nextStartTimeRef, dur, outClock[p.ctx]))
                   ELSE sources
         set == IF ok THEN sourcesRef \cup {i} ELSE sourcesRef
         cur == IF ok THEN Advance(nextStartTimeRef, dur) ELSE nextStartTimeRef
     IN
     /\ pendingDecodes' = Tail(pendingDecodes)
     /\ IF p.interrupted
          THEN /\ Did("interrupted")
               /\ Interrupted(srcs, set, transcription)
          ELSE /\ Did(IF ok THEN "scheduled" ELSE "decodeFailed")
               /\ sources' = srcs
               /\ sourcesRef' = set
               /\ nextStartTimeRef' = cur
               /\ UNCHANGED transcription
  /\ UNCHANGED << isConnected, error, inputAudioContextRef,
                  outputAudioContextRef, inputAnalyserRef, outputAnalyserRef,
                  mediaStreamRef, sessionRef, inCtxState, outCtxState, outClock,
                  streamState, pc, promise, outNodeCtx, procCtx, timers, chunks,
                  nextSess, audioSeq, mounted >>

\* When a started source falls silent: it plays from max(when, clock at
\* start) for its duration.
EndTime(src) == Max(src.when, src.at) + src.dur

\* The 'ended' listener of a source that has played to its end.
SourceEnded(i) ==
  /\ i \in DOMAIN sources
  /\ sources[i].st = "scheduled"
  /\ outCtxState[sources[i].ctx] = "running"
  /\ outClock[sources[i].ctx] >= EndTime(sources[i])
  /\ sources' = [sources EXCEPT ![i].st = "ended"]
  /\ sourcesRef' = sourcesRef \ {i}
  /\ Did("ended")
  /\ UNCHANGED << isConnected, error, transcription, inputAudioContextRef,
                  outputAudioContextRef, inputAnalyserRef, outputAnalyserRef,
                  mediaStreamRef, sessionRef, nextStartTimeRef, inCtxState,
                  outCtxState, outClock, streamState, pc, promise, outNodeCtx,
                  procCtx, pendingDecodes, timers, chunks, nextSess, audioSeq,
                  mounted >>

\* --------------------------------------------------------- time and timers
\* Time passes: every running playback context's clock advances, every
\* pending timer comes closer.  A timer that is due fires before more time
\* passes.
Tick ==
  /\ \A k \in DOMAIN timers : timers[k] >= TickMs
  /\ \/ timers # <<>>
     \/ \E s \in Sessions : outCtxState[s] = "running" /\ outClock[s] < MaxClock
  /\ timers' = [k \in DOMAIN timers |-> timers[k] - TickMs]
  /\ outClock' = [s \in Sessions |->
                    IF outCtxState[s] = "running" /\ outClock[s] < MaxClock
                      THEN outClock[s] + 1 ELSE outClock[s]]
  /\ Did("tick")
  /\ UNCHANGED << isConnected, error, transcription, inputAudioContextRef,
                  outputAudioContextRef, inputAnalyserRef, outputAnalyserRef,
                  mediaStreamRef, sessionRef, sourcesRef, nextStartTimeRef,
                  inCtxState, outCtxState, streamState, pc, promise, outNodeCtx,
                  procCtx, sources, pendingDecodes, chunks, nextSess, audioSeq,
                  mounted >>

\* What the timeout callback of a turn-complete does to the transcript.
TimerClear(tr) == [user |-> <<>>, model |-> <<>>]

\* setTimeout(..., 3000) of the oldest turn-complete expires.
TimerFire ==
  /\ timers # <<>>
  /\ Head(timers) < TickMs
  /\ timers' = Tail(timers)
  /\ transcription' = TimerClear(transcription)
  /\ Did("timer")
  /\ UNCHANGED << isConnected, error, inputAudioContextRef,
                  outputAudioContextRef, inputAnalyserRef, outputAnalyserRef,
                  mediaStreamRef, sessionRef, sourcesRef, nextStartTimeRef,
                  inCtxState, outCtxState, outClock, streamState, pc, promise,
                  outNodeCtx, procCtx, sources, pendingDecodes, chunks,
                  nextSess, audioSeq, mounted >>

\* ------------------------------------------------------- microphone chunks
\* Mutant of ChunkFate: a chunk is dropped unless the session is ready.
ChunkFateDrop(pr, conn) ==
  IF pr = "resolved" /\ conn = "open" THEN "sent" ELSE "lost"

\* What becomes of a chunk handed to sessionPromise.then(...): the
\* continuation runs at once on a resolved promise, waits on a pending one,
\* and never runs on a rejected one.  A send on a closed transport is lost.
ChunkFate(pr, conn) ==
  IF pr = "pending" THEN "queued"
  ELSE IF pr = "resolved" /\ conn = "open" THEN "sent"
  ELSE "lost"

\* onaudioprocess of the script processor that onopen of session s attached
AudioProcess(s) ==
  /\ procCtx[s] # 0
  /\ inCtxState[procCtx[s]] = "running"
  /\ Len(chunks) < MaxChunks
  /\ chunks' = Append(chunks,
       [sess |-> s, early |-> promise[s] = "pending",
        st |-> ChunkFate(promise[s], pc[s])])
  /\ Did("audioprocess")
  /\ UNCHANGED << isConnected, error, transcription, inputAudioContextRef,
                  outputAudioContextRef, inputAnalyserRef, outputAnalyserRef,
                  mediaStreamRef, sessionRef, sourcesRef, nextStartTimeRef,
                  inCtxState, outCtxState, outClock, streamState, pc, promise,
                  outNodeCtx, procCtx, sources, pendingDecodes, timers,
                  nextSess, audioSeq, mounted >>

\* The promise of ai.live.connect resolves with the session; the
\* continuations queued on it run.
SessionResolved(s) ==
  /\ promise[s] = "pending"
  /\ pc[s] \in {"open", "errored", "closed"}
  /\ promise' = [promise EXCEPT ![s] = "resolved"]
  /\ chunks' = [k \in DOMAIN chunks |->
                  IF chunks[k].sess = s /\ chunks[k].st = "queued"
                    THEN [chunks[k] EXCEPT !.st = ChunkFate("resolved", pc[s])]
                    ELSE chunks[k]]
  /\ Did("resolved")
  /\ UNCHANGED << isConnected, error, transcription, inputAudioContextRef,
                  outputAudioContextRef, inputAnalyserRef, outputAnalyserRef,
                  mediaStreamRef, sessionRef, sourcesRef, nextStartTimeRef,
                  inCtxState, outCtxState, outClock, streamState, pc,
                  outNodeCtx, procCtx, sources, pendingDecodes, timers,
                  nextSess, audioSeq, mounted >>

\* ============================================================ VeoAnimator
\* Strings that are searched are sequences of words; NotFound stands for
\* the phrase the catch block looks for.
NotFound == "Requested entity was not found"
Texts == {<<>>, <<"quota">>, <<NotFound>>, <<"quota", NotFound, "again">>}
Uris == {"", "u1", "u2"}

\* s.includes(w)
Includes(s, w) == \E k \in DOMAIN s : s[k] = w

\* A nullable string: null, or a string (possibly empty).
Null == [set |-> FALSE, text |-> <<>>]
Str(s) == [set |-> TRUE, text |-> s]

\* What the remote job reports: the done flag, the error payload (null or
\* an object with a message) and the URI of the generated video.
Operations == [done : BOOLEAN, err : {Null} \cup {Str(m) : m \in Texts},
               uri : Uris]
NoOperation == [done |-> FALSE, err |-> Null, uri |-> ""]

InitVideo ==
  /\ file = FALSE
  /\ videoUrl = NULL
  /\ isLoading = FALSE
  /\ status = ""
  /\ vError = Null
  /\ vpc = "idle"
  /\ operation = NoOperation
  /\ fetches = 0
  /\ notDone = 0
  /\ submitDone = FALSE
  /\ threw = FALSE

VideoStep == UNCHANGED << mode, liveVars, imageVars, searchVars >>

handleFileChange ==
  /\ Shown = "VeoAnimator"
  /\ ~file
  /\ file' = TRUE
  /\ UNCHANGED << videoUrl, isLoading, status, vError, vpc, operation, fetches,
                  notDone, submitDone, threw >>
  /\ VideoStep

\* The Animate button (disabled without a file or while loading), up to the
\* await of hasSelectedApiKey.
handleGenerate ==
  /\ Shown = "VeoAnimator"
  /\ file /\ ~isLoading
  /\ vpc = "idle"
  /\ vError' = Null
  /\ isLoading' = TRUE
  /\ status' = "Checking API Key permissions..."
  /\ vpc' = "hasKey"
  /\ operation' = NoOperation
  /\ fetches' = 0
  /\ notDone' = 0
  /\ submitDone' = FALSE
  /\ threw' = FALSE
  /\ UNCHANGED << file, videoUrl >>
  /\ VideoStep

\* Mutant of Surfaced: every failure shows the generic text.
SurfacedGeneric(m) == <<"An error occurred during video generation.">>

\* The message the catch block surfaces for an exception with message m.
Surfaced(m) ==
  IF Includes(m, NotFound)
    THEN <<"Session expired or key invalid. Please try again to select a key.">>
    ELSE IF m # <<>> THEN m
    ELSE <<"An error occurred during video generation.">>

\* catch (e) { setError(...) } finally { setIsLoading(false); setStatus('') }
Caught(m) ==
  /\ vError' = Str(Surfaced(m))
  /\ isLoading' = FALSE
  /\ status' = ""
  /\ vpc' = "idle"
  /\ UNCHANGED videoUrl

\* An await of handleGenerate rejects with message m.
Rejected(m) ==
  /\ Caught(m)
  /\ threw' = TRUE
  /\ UNCHANGED << file, operation, fetches, notDone, submitDone >>
  /\ VideoStep

Awaiting == {"hasKey", "selectKey", "upload", "submit", "poll", "download", "blob"}

AwaitRejected(m) ==
  /\ vpc \in Awaiting
  /\ Rejected(m)

HasKey(has) ==
  /\ vpc = "hasKey"
  /\ IF has
       THEN /\ status' = "Uploading and processing image..."
            /\ vpc' = "upload"
       ELSE /\ status' = "Waiting for API Key selection..."
            /\ vpc' = "selectKey"
  /\ UNCHANGED << file, videoUrl, isLoading, vError, operation, fetches,
                  notDone, submitDone, threw >>
  /\ VideoStep

KeySelected ==
  /\ vpc = "selectKey"
  /\ status' = "Uploading and processing image..."
  /\ vpc' = "upload"
  /\ UNCHANGED << file, videoUrl, isLoading, vError, operation, fetches,
                  notDone, submitDone, threw >>
  /\ VideoStep

Uploaded ==
  /\ vpc = "upload"
  /\ status' = "Initializing generation (this may take a minute)..."
  /\ vpc' = "submit"
  /\ UNCHANGED << file, videoUrl, isLoading, vError, operation, fetches,
                  notDone, submitDone, threw >>
  /\ VideoStep

\* while (!operation.done): whether the loop runs again on operation op.
PollAgain(op) == ~op.done

\* The code after the polling loop, on the terminal operation op.
AfterLoop(op) ==
  IF op.err.set
    THEN Caught(IF op.err.text # <<>> THEN op.err.text
                ELSE <<"Unknown generation error">>)
    ELSE IF op.uri = ""
      THEN Caught(<<"No video URI returned.">>)
      ELSE /\ status' = "Fetching final video..."
           /\ vpc' = "download"
           /\ UNCHANGED << videoUrl, isLoading, vError >>

\* generateVideos resolves with the operation op.
Submitted(op) ==
  /\ vpc = "submit"
  /\ operation' = op
  /\ submitDone' = op.done
  /\ IF PollAgain(op)
       THEN /\ status' = "Generating video frames..."
            /\ vpc' = "sleep"
            /\ UNCHANGED << videoUrl, isLoading, vError >>
       ELSE AfterLoop(op)
  /\ UNCHANGED << file, fetches, notDone, threw >>
  /\ VideoStep

\* Mutant of Slept: the status fetch is issued twice per iteration.
SleptFetchTwice ==
  /\ vpc = "sleep"
  /\ vpc' = "poll"
  /\ fetches' = fetches + 2
  /\ UNCHANGED << file, videoUrl, isLoading, status, vError, operation,
                  notDone, submitDone, threw >>
  /\ VideoStep

\* The 5 s timeout of the loop body expires and getVideosOperation is called.
Slept ==
  /\ vpc = "sleep"
  /\ vpc' = "poll"
  /\ fetches' = fetches + 1
  /\ UNCHANGED << file, videoUrl, isLoading, status, vError, operation,
                  notDone, submitDone, threw >>
  /\ VideoStep

\* getVideosOperation resolves with the operation op.
Polled(op) ==
  /\ vpc = "poll"
  /\ ~op.done => fetches < MaxPolls
  /\ operation' = op
  /\ notDone' = IF op.done THEN notDone ELSE notDone + 1
  /\ IF PollAgain(op)
       THEN /\ vpc' = "sleep"
            /\ UNCHANGED << videoUrl, isLoading, status, vError >>
       ELSE AfterLoop(op)
  /\ UNCHANGED << file, fetches, submitDone, threw >>
  /\ VideoStep

\* fetch(downloadLink + key) resolves.
Downloaded ==
  /\ vpc = "download"
  /\ vpc' = "blob"
  /\ UNCHANGED << file, videoUrl, isLoading, status, vError, operation,
                  fetches, notDone, submitDone, threw >>
  /\ VideoStep

\* videoResponse.blob() resolves: the object URL of the video is shown.
BlobRead ==
  /\ vpc = "blob"
  /\ videoUrl' = operation.uri
  /\ isLoading' = FALSE
  /\ status' = ""
  /\ vpc' = "idle"
  /\ UNCHANGED << file, vError, operation, fetches, notDone, submitDone, threw >>
  /\ VideoStep

\* ============================================================ ImageEditor
PartKinds == {"text", "img1", "img2"}

\* response.candidates?.[0]?.content?.parts: undefined, or a list of parts
RECURSIVE SeqsUpTo(_, _)
SeqsUpTo(S, n) ==
  IF n = 0 THEN {<<>>}
  ELSE LET shorter == SeqsUpTo(S, n - 1) IN
       shorter \cup {Append(q, x) : q \in shorter, x \in S}

Responses == {Null} \cup {Str(q) : q \in SeqsUpTo(PartKinds, MaxParts)}

HasInlineData(part) == part # "text"

\* Mutant of FirstImage: the first part is taken, whatever it carries.
FirstPart(parts, result) ==
  IF parts = <<>> THEN result ELSE Head(parts)

\* The loop over the parts: the data URL of the first part with inlineData,
\* or the result left as it is.
RECURSIVE FirstImage(_, _)
FirstImage(parts, result) ==
  IF parts = <<>> THEN result
  ELSE IF HasInlineData(Head(parts)) THEN Head(parts)
  ELSE FirstImage(Tail(parts), result)

InitImage ==
  /\ iFile = FALSE
  /\ iPrompt = FALSE
  /\ resultImage = NULL
  /\ loading = FALSE
  /\ alerts = 0
  /\ ipc = "idle"
  /\ lastParts = Null

ImageStep == UNCHANGED << mode, liveVars, videoVars, searchVars >>

imageFileChange ==
  /\ Shown = "ImageEditor"
  /\ iFile' = TRUE
  /\ resultImage' = NULL
  /\ iFile = FALSE \/ resultImage # NULL
  /\ UNCHANGED << iPrompt, loading, alerts, ipc, lastParts >>
  /\ ImageStep

setPrompt(nonEmpty) ==
  /\ Shown = "ImageEditor"
  /\ iPrompt # nonEmpty
  /\ iPrompt' = nonEmpty
  /\ UNCHANGED << iFile, resultImage, loading, alerts, ipc, lastParts >>
  /\ ImageStep

\* The Generate Scenario button, up to the await of blobToBase64.
handleEdit ==
  /\ Shown = "ImageEditor"
  /\ iFile /\ iPrompt /\ ~loading
  /\ ipc = "idle"
  /\ loading' = TRUE
  /\ resultImage' = NULL
  /\ ipc' = "upload"
  /\ lastParts' = Null
  /\ UNCHANGED << iFile, iPrompt, alerts >>
  /\ ImageStep

ImageUploaded ==
  /\ ipc = "upload"
  /\ ipc' = "request"
  /\ UNCHANGED << iFile, iPrompt, resultImage, loading, alerts, lastParts >>
  /\ ImageStep

\* What handleEdit does with the parts of a response that arrived.
Extracted(resp, result) ==
  IF resp.set THEN FirstImage(resp.text, result) ELSE result

\* generateContent resolves with a response.
Responded(resp) ==
  /\ ipc = "request"
  /\ resultImage' = Extracted(resp, resultImage)
  /\ lastParts' = resp
  /\ loading' = FALSE
  /\ ipc' = "settled"
  /\ UNCHANGED << iFile, iPrompt, alerts >>
  /\ ImageStep

\* An await of handleEdit rejects: catch { alert(...) } finally.
EditRejected ==
  /\ ipc \in {"upload", "request"}
  /\ alerts < MaxAlerts
  /\ alerts' = alerts + 1
  /\ loading' = FALSE
  /\ ipc' = "failed"
  /\ UNCHANGED << iFile, iPrompt, resultImage, lastParts >>
  /\ ImageStep

\* The panel is rendered again after handleEdit returned.
EditReturned ==
  /\ ipc \in {"settled", "failed"}
  /\ ipc' = "idle"
  /\ UNCHANGED << iFile, iPrompt, resultImage, loading, alerts, lastParts >>
  /\ ImageStep

\* ============================================================ SearchQuery
\* A string is the sequence of its characters; a message or an answer is a
\* sequence of words.
Chars == {" ", "a"}
Queries == SeqsUpTo(Chars, MaxQuery)

RECURSIVE TrimStart(_)
TrimStart(q) ==
  IF q # <<>> /\ Head(q) = " " THEN TrimStart(Tail(q)) ELSE q

RECURSIVE TrimEnd(_)
TrimEnd(q) ==
  IF q # <<>> /\ q[Len(q)] = " " THEN TrimEnd(SubSeq(q, 1, Len(q) - 1)) ELSE q

\* query.trim()
Trim(q) == TrimEnd(TrimStart(q))

\* result.text: undefined or a string
Answers == {Null, Str(<<>>), Str(<<"answer">>)}
\* result.candidates?.[0]?.groundingMetadata?.groundingChunks
Citations == {Null} \cup {Str(c) : c \in SeqsUpTo({"cite"}, MaxCites)}
\* err.message of what generateContent rejects with
SearchErrors == {Null, Str(<<>>), Str(<<"network">>)}

\* result.text || "No response generated."
ResponseText(t) ==
  IF t.set /\ t.text # <<>> THEN t.text ELSE <<"No response generated.">>

\* ... || []
ChunkList(c) == IF c.set THEN c.text ELSE <<>>

\* Mutant of ErrorText: the message is shown without the prefix.
ErrorTextBare(m) == IF m.set THEN m.text ELSE <<"undefined">>

\* `Error: ${err.message}`
ErrorText(m) == <<"Error: ">> \o (IF m.set THEN m.text ELSE <<"undefined">>)

InitSearch ==
  /\ query = <<>>
  /\ response = <<>>
  /\ groundingChunks = <<>>
  /\ sLoading = FALSE
  /\ spc = "idle"
  /\ requests = 0
  /\ sLast = "init"

SearchStep == UNCHANGED << mode, liveVars, videoVars, imageVars >>

\* onChange of the query input
setQuery(q) ==
  /\ Shown = "SearchQuery"
  /\ q # query
  /\ query' = q
  /\ sLast' = "typed"
  /\ UNCHANGED << response, groundingChunks, sLoading, spc, requests >>
  /\ SearchStep

\* The form is submitted (the submit button is disabled while loading), up
\* to the await of generateContent.
handleSearch ==
  /\ Shown = "SearchQuery"
  /\ ~sLoading
  /\ spc = "idle"
  /\ IF Trim(query) = <<>>
       THEN /\ sLast' = "blank"
            /\ UNCHANGED << response, groundingChunks, sLoading, spc, requests >>
       ELSE /\ requests < MaxRequests
            /\ sLoading' = TRUE
            /\ response' = <<>>
            /\ groundingChunks' = <<>>
            /\ spc' = "request"
            /\ requests' = requests + 1
            /\ sLast' = "submitted"
  /\ UNCHANGED query
  /\ SearchStep

\* generateContent resolves with a result.
SearchResponded(t, c) ==
  /\ spc = "request"
  /\ response' = ResponseText(t)
  /\ groundingChunks' = ChunkList(c)
  /\ sLoading' = FALSE
  /\ spc' = "idle"
  /\ sLast' = "responded"
  /\ UNCHANGED << query, requests >>
  /\ SearchStep

\* The constructor or generateContent throws: catch, then finally.
SearchRejected(m) ==
  /\ spc = "request"
  /\ response' = ErrorText(m)
  /\ sLoading' = FALSE
  /\ spc' = "idle"
  /\ sLast' = "failed"
  /\ UNCHANGED << query, groundingChunks, requests >>
  /\ SearchStep

\* The request of handleSearch settles, one way or the other.
SearchSettled ==
  \/ \E t \in Answers, c \in Citations : SearchResponded(t, c)
  \/ \E m \in SearchErrors : SearchRejected(m)

\* ================================================================ App shell
\* React mounts a panel: a new instance with the initial state and refs.
\* What an earlier instance left in flight (callbacks, timers, awaits)
\* closes over that instance's setters and refs, cannot reach the new
\* instance and is not followed further; the browser objects it made stay
\* as they are.
MountLive ==
  /\ isConnected' = FALSE
  /\ error' = NULL
  /\ transcription' = [user |-> <<>>, model |-> <<>>]
  /\ inputAudioContextRef' = 0
  /\ outputAudioContextRef' = 0
  /\ inputAnalyserRef' = 0
  /\ outputAnalyserRef' = 0
  /\ mediaStreamRef' = 0
  /\ sessionRef' = 0
  /\ sourcesRef' = {}
  /\ nextStartTimeRef' = 0
  /\ pc' = [s \in Sessions |->
              IF pc[s] \in {"idle", "failed", "closed"} THEN pc[s]
              ELSE "orphaned"]
  /\ procCtx' = [s \in Sessions |-> 0]
  /\ pendingDecodes' = <<>>
  /\ timers' = <<>>
  /\ mounted' = TRUE
  /\ lastOp' = "mount"
  /\ UNCHANGED << inCtxState, outCtxState, outClock, streamState, promise,
                  outNodeCtx, sources, chunks, nextSess, audioSeq, flushed,
                  flushSeq >>

MountVideo ==
  /\ file' = FALSE
  /\ videoUrl' = NULL
  /\ isLoading' = FALSE
  /\ status' = ""
  /\ vError' = Null
  /\ vpc' = "idle"
  /\ operation' = NoOperation
  /\ fetches' = 0
  /\ notDone' = 0
  /\ submitDone' = FALSE
  /\ threw' = FALSE

MountImage ==
  /\ iFile' = FALSE
  /\ iPrompt' = FALSE
  /\ resultImage' = NULL
  /\ loading' = FALSE
  /\ ipc' = "idle"
  /\ lastParts' = Null
  /\ UNCHANGED alerts

MountSearch ==
  /\ query' = <<>>
  /\ response' = <<>>
  /\ groundingChunks' = <<>>
  /\ sLoading' = FALSE
  /\ spc' = "idle"
  /\ sLast' = "init"
  /\ UNCHANGED requests

\* A navigation button: setMode(m).  React renders renderContent() again,
\* unmounts the panel that is no longer returned and mounts the new one.
onModeChange(m) ==
  /\ m # mode
  /\ mode' = m
  /\ LET old == renderContent(mode)
         new == renderContent(m)
     IN
     /\ IF new = old THEN UNCHANGED liveVars
        ELSE IF old = "LiveConversation" THEN Unmount
        ELSE IF new = "LiveConversation" THEN MountLive
        ELSE UNCHANGED liveVars
     /\ IF new # old /\ new = "VeoAnimator"
          THEN MountVideo ELSE UNCHANGED videoVars
     /\ IF new # old /\ new = "ImageEditor"
          THEN MountImage ELSE UNCHANGED imageVars
     /\ IF new # old /\ new = "SearchQuery"
          THEN MountSearch ELSE UNCHANGED searchVars

Init ==
  /\ mode = "conversation"
  /\ InitLive /\ InitVideo /\ InitImage /\ InitSearch

\* ------------------------------------------------------------ specifications
\* Messages that carry audio or the interrupted flag only.
AudioMessages ==
  {m \in Messages : ~m.outT /\ ~m.inT /\ ~m.turnComplete
                    /\ (m.audio \/ m.interrupted)}

\* Messages that carry no audio.
TextMessages ==
  {m \in Messages : ~m.audio
                    /\ (m.outT \/ m.inT \/ m.turnComplete \/ m.interrupted)}

\* The session life cycle: every way startSession can run and end.
NextLife ==
  \/ \E f \in {"none", "early", "outCtx"}, msg \in ThrownMessages :
       StartClick(f, msg)
  \/ \E s \in Sessions, t \in BOOLEAN, msg \in ThrownMessages :
       MicGranted(s, t, msg)
  \/ \E s \in Sessions, msg \in ThrownMessages : MicDenied(s, msg)
  \/ \E s \in Sessions : Opened(s)
  \/ \E s \in Sessions : ConnectFailed(s)
  \/ \E s \in Sessions : RemoteClosed(s)
  \/ \E s \in Sessions : RemoteError(s)
  \/ \E s \in Sessions : SessionResolved(s)
  \/ StopClick
  \/ StopClickAgain
  \/ onModeChange("animator")

SpecLife == Init /\ [][NextLife]_vars

\* Playback: the first session, started without failure; audio and
\* interruption messages, decoding, the playback clock, teardown.
NextPlay ==
  \/ nextSess = 1 /\ StartClick("none", "")
  \/ \E s \in Sessions : MicGranted(s, FALSE, "")
  \/ \E s \in Sessions : Opened(s)
  \/ \E s \in Sessions, m \in AudioMessages : Message(s, m)
  \/ \E d \in 0..MaxDur : DecodeDone(d)
  \/ \E i \in 1..MaxAudio : SourceEnded(i)
  \/ Tick
  \/ StopClick
  \/ onModeChange("animator")

SpecPlay == Init /\ [][NextPlay]_vars

\* Transcript: the first session, started without failure; text,
\* turn-complete and interruption messages, the delayed clear, the ways a
\* session ends.
NextText ==
  \/ nextSess = 1 /\ StartClick("none", "")
  \/ \E s \in Sessions : MicGranted(s, FALSE, "")
  \/ \E s \in Sessions : Opened(s)
  \/ \E s \in Sessions, m \in TextMessages : Message(s, m)
  \/ Tick
  \/ TimerFire
  \/ \E s \in Sessions : RemoteClosed(s)
  \/ \E s \in Sessions : RemoteError(s)
  \/ StopClick
  \/ onModeChange("animator")

SpecText == Init /\ [][NextText]_vars

\* Capture: microphone chunks against the state of the session promise.
NextMic ==
  \/ nextSess <= MicSessions /\ StartClick("none", "")
  \/ \E s \in Sessions : MicGranted(s, FALSE, "")
  \/ \E s \in Sessions : Opened(s)
  \/ \E s \in Sessions : ConnectFailed(s)
  \/ \E s \in Sessions : SessionResolved(s)
  \/ \E s \in Sessions : AudioProcess(s)
  \/ \E s \in Sessions : RemoteClosed(s)
  \/ \E s \in Sessions : RemoteError(s)
  \/ StopClick
  \/ onModeChange("animator")

SpecMic == Init /\ [][NextMic]_vars

NextVideo ==
  \/ handleFileChange
  \/ handleGenerate
  \/ \E has \in BOOLEAN : HasKey(has)
  \/ KeySelected
  \/ Uploaded
  \/ \E op \in Operations : Submitted(op)
  \/ Slept
  \/ \E op \in Operations : Polled(op)
  \/ Downloaded
  \/ BlobRead
  \/ \E m \in Texts : AwaitRejected(m)
  \/ \E m \in AppMode : onModeChange(m)

SpecVideo == Init /\ [][NextVideo]_vars

NextImage ==
  \/ imageFileChange
  \/ \E b \in BOOLEAN : setPrompt(b)
  \/ handleEdit
  \/ ImageUploaded
  \/ \E r \in Responses : Responded(r)
  \/ EditRejected
  \/ EditReturned
  \/ \E m \in AppMode : onModeChange(m)

SpecImage == Init /\ [][NextImage]_vars

\* The shell: navigation between the panels, with the live panel started,
\* opened and stopped in between.
NextShell ==
  \/ \E m \in AppMode : onModeChange(m)
  \/ StartClick("none", "")
  \/ \E s \in Sessions : MicGranted(s, FALSE, "")
  \/ \E s \in Sessions : Opened(s)
  \/ StopClick

SpecShell == Init /\ [][NextShell]_vars

\* The search panel.  A request that was issued settles: the promise of
\* generateContent resolves or rejects.
NextSearch ==
  \/ \E q \in Queries : setQuery(q)
  \/ handleSearch
  \/ SearchSettled
  \/ \E m \in AppMode : onModeChange(m)

SpecSearch == Init /\ [][NextSearch]_vars /\ WF_vars(SearchSettled)

\* =================================================================== claims
Empty == [user |-> <<>>, model |-> <<>>]
CleanupOps == {"cleanup", "cleanup2", "unmount"}

\* C1: with no interruption or teardown so far, the sources started for the
\* audio payloads do not overlap in sequence order (s(j) >= s(i) + d(i) for
\* payload i before payload j) and none is started in the past (its start
\* time is at least the playback clock at the moment source.start is called).
C1_GaplessNeverInPast ==
  ~flushed =>
    /\ \A i \in DOMAIN sources : sources[i].when >= sources[i].at
    /\ \A i, j \in DOMAIN sources :
         sources[i].seq < sources[j].seq
           => sources[j].when >= sources[i].when + sources[i].dur

\* C2: when a message carrying the interrupted flag has been handled, the
\* playback set is empty, the cursor is zero and no source started before is
\* still scheduled to play.
C2_InterruptionFlushes ==
  lastOp = "interrupted" =>
    /\ sourcesRef = {}
    /\ nextStartTimeRef = 0
    /\ \A i \in DOMAIN sources : sources[i].st # "scheduled"

\* C2 witness: an interruption has stopped a source that was playing (no
\* teardown has closed a playback context, so the stop is the interruption's).
C2_Witness ==
  /\ lastOp = "interrupted"
  /\ \A s \in Sessions : outCtxState[s] # "closed"
  /\ \E i \in DOMAIN sources : sources[i].st = "stopped"

\* An analyser handle is released when it is null or its context is closed.
AnalyserReleased(ref, ctxState) == ref = 0 \/ ctxState[ref] = "closed"

AllReleased ==
  /\ mediaStreamRef = 0
  /\ inputAudioContextRef = 0
  /\ outputAudioContextRef = 0
  /\ AnalyserReleased(inputAnalyserRef, inCtxState)
  /\ AnalyserReleased(outputAnalyserRef, outCtxState)
  /\ sessionRef = 0
  /\ sourcesRef = {}
  /\ ~isConnected
  /\ nextStartTimeRef = 0

\* C3: a call of cleanup (stop click, repeated stop click, unmount) leaves
\* every resource handle null or released, the connected flag false and the
\* cursor zero; a call that follows another call at once changes nothing.
C3_TeardownIdempotent ==
  [][lastOp' \in CleanupOps =>
       /\ AllReleased'
       /\ lastOp \in CleanupOps =>
            UNCHANGED << mediaStreamRef, inputAudioContextRef,
                         outputAudioContextRef, inputAnalyserRef,
                         outputAnalyserRef, sessionRef, sourcesRef, isConnected,
                         nextStartTimeRef, inCtxState, outCtxState, streamState,
                         sources >>]_vars

\* The state a user stop leaves behind.
TornDown ==
  /\ mediaStreamRef = 0
  /\ inputAudioContextRef = 0
  /\ outputAudioContextRef = 0
  /\ sessionRef = 0
  /\ sourcesRef = {}
  /\ ~isConnected

\* C4: when the remote end of the current, open session reports closed or
\* reports an error, the controller is torn down as after a user stop.
C4_RemoteEndTearsDown ==
  [][\A s \in Sessions :
       (pc[s] = "open" /\ sessionRef = s /\ pc'[s] \in {"closed", "errored"})
         => TornDown']_vars

\* C5: a delayed clear that removes transcript text runs only when no
\* turn-complete event is still inside its own delay, and handling a
\* turn-complete message leaves the connected flag as it was.
C5_ClearOnlyAfterDelay ==
  [][/\ (lastOp' = "timer" /\ transcription # Empty)
          => \A k \in DOMAIN timers' : timers'[k] < TickMs
     /\ Len(timers') > Len(timers) => isConnected' = isConnected]_vars

\* handleGenerate has returned from a run in which no await rejected.
RanClean == vpc = "idle" /\ operation.done /\ ~threw

\* C6: when the job was not done at submission and then reported not-done
\* to k status fetches and done, with a URI and no error, to the next one,
\* handleGenerate has issued exactly k+1 fetches and has settled with the
\* video of that URI, not loading, no error.
C6_PollsUntilDone ==
  (RanClean /\ ~submitDone /\ ~operation.err.set /\ operation.uri # "")
    => /\ fetches = notDone + 1
       /\ videoUrl = operation.uri
       /\ ~isLoading
       /\ vError = Null

\* C6 witness: a job that was not done for two fetches and done at the third.
C6_Witness ==
  /\ RanClean /\ ~submitDone /\ ~operation.err.set
  /\ notDone = 2 /\ fetches = 3
  /\ operation.uri = "u2" /\ videoUrl = "u2"

\* The job ended with an error payload whose message is not empty.
TerminalFailure ==
  RanClean /\ operation.err.set /\ operation.err.text # <<>>

\* C7 as claimed: after a terminal failure with message m the surfaced
\* error is m, for every non-empty m.
C7_ErrorVerbatim ==
  TerminalFailure => vError = Str(operation.err.text)

\* C7 amended: the surfaced error is m unless m contains "Requested entity
\* was not found"; then it is the fixed session-expired text.
C7_ErrorVerbatimUnlessNotFound ==
  TerminalFailure =>
    IF Includes(operation.err.text, NotFound)
      THEN vError = Str(<<"Session expired or key invalid. Please try again to select a key.">>)
      ELSE vError = Str(operation.err.text)

\* C7 witness: a job failed with "quota" and the panel shows "quota".
C7_Witness ==
  /\ TerminalFailure
  /\ operation.err.text = <<"quota">>
  /\ vError = Str(<<"quota">>)

\* A response without a part that carries inline data.
NoImage(resp) ==
  ~resp.set \/ \A k \in DOMAIN resp.text : ~HasInlineData(resp.text[k])

\* C8: a response without an inline-image part takes handleEdit to its
\* settled state: not loading, the result image null, no alert raised.
C8_NoImageSettlesEmpty ==
  [][(ipc = "request" /\ ipc' = "settled" /\ NoImage(lastParts'))
       => /\ ~loading'
          /\ resultImage' = NULL
          /\ alerts' = alerts]_vars

\* C8 witness: a response of text parts only has been handled.
C8_Witness ==
  /\ ipc = "settled"
  /\ lastParts = Str(<<"text", "text">>)
  /\ resultImage = NULL
  /\ ~loading

\* C9: when a step of startSession fails for the start that made the
\* current handles, afterwards a non-empty message is shown, the connected
\* flag is false and the stream, both contexts and the session handle are
\* released.
C9_StartFailureTearsDown ==
  [][\A s \in Sessions :
       (pc[s] # "failed" /\ pc'[s] = "failed")
         => /\ error' \notin {NULL, ""}
            /\ ~isConnected'
            /\ mediaStreamRef' = 0
            /\ inputAudioContextRef' = 0
            /\ outputAudioContextRef' = 0
            /\ sessionRef' = 0]_vars

C11_NoFetchAfterUnmount ==
  [][Shown # "VeoAnimator" => fetches' <= fetches]_vars

\* handleGenerate has run and returned since the panel was mounted.
Attempted == vpc = "idle" /\ (threw \/ operation.done)

\* C12: when handleGenerate has returned, the panel shows either a video
\* and no error, or an error and no video, never both and never neither.
C12_OneOutcome ==
  Attempted =>
    \/ videoUrl # NULL /\ vError = Null
    \/ videoUrl = NULL /\ vError # Null

C14_DecodeFailureContained ==
  [][/\ lastOp' = "decodeFailed"
          => UNCHANGED << sources, sourcesRef, nextStartTimeRef, isConnected,
                          error >>
     /\ lastOp' = "scheduled"
          => LET n == Len(sources') IN
             /\ n = Len(sources) + 1
             /\ sources'[n].st = "scheduled"
             /\ sources'[n].when = nextStartTimeRef
             /\ sourcesRef' = sourcesRef \cup {n}
             /\ nextStartTimeRef' = nextStartTimeRef + sources'[n].dur
             /\ isConnected' = isConnected
             /\ error' = error]_vars

\* C14 witness: the first payload failed to decode, nothing was flushed, and
\* the second payload has been started on the still connected session.
C14_Witness ==
  /\ lastOp = "scheduled"
  /\ ~flushed
  /\ isConnected
  /\ Len(sources) = 1
  /\ sources[1].seq = 2
  /\ sourcesRef = {1}

\* The session started last has ended (user stop on the mounted panel,
\* remote close, or transport error) and no new one has been started.
SessionEnded ==
  /\ mounted
  /\ nextSess > 1
  /\ LET s == nextSess - 1 IN
       \/ pc[s] \in {"closed", "errored"}
       \/ pc[s] = "open" /\ sessionRef = 0

\* C15: both transcript strings are empty when startSession begins, and
\* they are empty in every state in which the last session has ended.
C15_TranscriptFollowsSession ==
  [][/\ lastOp' = "start" => transcription' = Empty
     /\ SessionEnded' => transcription' = Empty]_vars

\* An error message is shown.
ErrorShown(e) == e \notin {NULL, ""}

\* C16: a transport error on an open session sets a non-empty error message
\* and the connected flag to false; a shown error message is removed by no
\* step but a Start Session click, and a start that does not fail in its
\* first, synchronous part leaves the message cleared.
C16_TransportErrorSurfaced ==
  [][/\ \A s \in Sessions :
          (pc[s] = "open" /\ pc'[s] = "errored")
            => ErrorShown(error') /\ ~isConnected'
     /\ (ErrorShown(error) /\ lastOp' \notin {"start", "startFailed"})
          => ErrorShown(error')
     /\ lastOp' = "start" => error' = NULL]_vars

\* C16 witness: onerror of an open session has run.
C16_Witness ==
  /\ lastOp = "onerror"
  /\ \E s \in Sessions : pc[s] = "errored"
  /\ error = "Connection error occurred."
  /\ ~isConnected

Panels == {"LiveConversation", "VeoAnimator", "ImageEditor", "SearchQuery"}

\* A microphone stream or an audio context made by the live panel is held.
Held ==
  \E s \in Sessions :
    \/ streamState[s] = "live"
    \/ inCtxState[s] = "running"
    \/ outCtxState[s] = "running"

\* C17: exactly one panel is shown, the one of the selected mode; the live
\* panel is mounted exactly while the mode is the live conversation; and
\* while another panel is shown no microphone stream and no audio context of
\* the live panel is held.
C17_ShellShowsOnePanel ==
  /\ Cardinality({p \in Panels : p = Shown}) = 1
  /\ \A m \in AppMode : mode = m => Shown = renderContent(m)
  /\ mounted <=> Shown = "LiveConversation"
  /\ Shown # "LiveConversation" => ~Held

\* C19: every microphone stream that is live, every audio context that is
\* running and every remote session that is connecting or open is the one
\* the controller's ref points to, so that there is at most one of each and
\* the next cleanup releases it.
C19_AtMostOneSession ==
  \A s \in Sessions :
    /\ streamState[s] = "live" => mediaStreamRef = s
    /\ inCtxState[s] = "running" => inputAudioContextRef = s
    /\ outCtxState[s] = "running" => outputAudioContextRef = s
    /\ pc[s] \in {"connecting", "open"} => sessionRef = s

\* C18: a submission with a blank or whitespace-only query changes nothing
\* and issues no request; a request that fails leaves "Error: " followed by
\* the message as the response, no citations, not loading; a submission
\* after a failure issues a new request; and whenever the panel is loading
\* it eventually is not loading.
C18_SearchFailuresScoped ==
  /\ [][/\ (sLast' = "blank" /\ sLast # "blank")
             => UNCHANGED << query, response, groundingChunks, sLoading, spc,
                             requests >>
        /\ (spc = "request" /\ sLast' = "failed")
             => /\ Head(response') = "Error: "
                /\ \E m \in SearchErrors :
                     Tail(response') = IF m.set THEN m.text ELSE <<"undefined">>
                /\ groundingChunks' = <<>>
                /\ ~sLoading'
        /\ (sLast = "failed" /\ sLast' = "submitted")
             => /\ requests' = requests + 1
                /\ sLoading'
                /\ response' = <<>>]_vars
  /\ (sLoading ~> ~sLoading)

\* C18 witness: the second request, submitted after a failure, has failed
\* too and the panel shows its message.
C18_Witness ==
  /\ sLast = "failed"
  /\ requests = 2
  /\ response = <<"Error: ", "network">>
  /\ groundingChunks = <<>>
  /\ ~sLoading

\* C20: a payload received before the latest flush (interruption or
\* teardown) is never started afterwards, and while no session has been
\* started since a teardown the playback set is empty.
C20_FlushIsFinal ==
  [][/\ Len(sources') > Len(sources)
          => sources'[Len(sources')].seq > flushSeq
     /\ outputAudioContextRef' = 0 => sourcesRef' = {}]_vars

\* The remote session s is alive and the mounted controller no longer
\* holds it: a teardown or a later start has replaced its handle.
Dropped(s) ==
  /\ mounted
  /\ pc[s] \in {"connecting", "open", "errored"}
  /\ sessionRef # s

\* What belongs to the session the controller currently runs.
CurrentSessionState ==
  << isConnected, error, transcription, sourcesRef, nextStartTimeRef >>

\* C21: an opened, closed or error event, or a message, of a dropped
\* session leaves the connected flag, the error string, the transcripts,
\* the playback set and the cursor as they were; in particular a late
\* opened event does not set the connected flag and finds the capture
\* context it needs (it does not throw).
C21_DroppedSessionIsolated ==
  [][\A s \in Sessions :
       /\ (Dropped(s) /\ pc'[s] # pc[s]
             /\ lastOp' \in {"onopen", "connectFailed", "onclose", "onerror"})
            => UNCHANGED CurrentSessionState
       /\ (Dropped(s) /\ \E m \in Messages : Message(s, m))
            => UNCHANGED CurrentSessionState
       /\ (Dropped(s) /\ pc[s] = "connecting" /\ pc'[s] = "open")
            => ~isConnected' /\ inputAudioContextRef # 0]_vars

====
